---- MODULE Spec2Model ----
(***************************************************************************)
(* Model of the libunftp control channel: the per-connection event loop    *)
(* (spawn_control_channel_loop), the dispatch chain (handle_with_auth,     *)
(* handle_event, handle_command, handle_internal_msg) and the error        *)
(* translation (handle_control_channel_error, From<ParseError>).           *)
(*                                                                         *)
(* One session is modelled.  Every loop iteration is one action: the       *)
(* select, the match on the polled event, the dispatch and the write of    *)
(* the reply happen in the same step, as they do in the loop body.         *)
(*                                                                         *)
(* Spec is the event loop with time left out; TimedSpec adds the idle      *)
(* timer's clock; PwdSpec runs PWD over working directories; ProxySpec is  *)
(* the proxy loop (listen_proxy_protocol_mode) with the sessions it        *)
(* creates and its switchboard.                                            *)
(***************************************************************************)
EXTENDS Integers, Sequences, FiniteSets, TLC

(***************************************************************************)
(* Bounds of the model.                                                    *)
(***************************************************************************)
\* Largest restart offset a REST command stores.
MaxOffset == 1
\* Data transfers that may be running at once.
MaxTransfers == 1
\* Most path characters after the leading "/" of a working directory.
MaxPathLen == 3
\* idle_session_timeout in ticks of the clock.
IdleTicks == 2
\* Control connections the proxy loop accepts.
MaxSessions == 2
\* Ports in the passive range.
NumPassivePorts == 1

(***************************************************************************)
(* Program constants.                                                      *)
(***************************************************************************)
\* channel(1): the buffer of a session's internal channel.
ControlMsgBuffer == 1
\* channel(1): the buffer of the proxy loop's channel.
ProxyLoopBuffer == 1
\* passive_ports: the range starts at 49152.
PassivePortsStart == 49152
passive_ports == PassivePortsStart .. (PassivePortsStart + NumPassivePorts - 1)
\* proxy_protocol_mode("10.0.0.1", 2121): the ProxyParams of the example, and
\* the control ports of the modelled configurations: the example's, and one
\* inside the passive range.
external_ip == <<10, 0, 0, 1>>
ExampleControlPort == 2121
ControlPorts == {ExampleControlPort, PassivePortsStart}

(***************************************************************************)
(* Reply codes (ReplyCode) used by the modelled code.                      *)
(***************************************************************************)
FileStatusOkay == 150
CommandOkay == 200
CommandOkayNotImplemented == 202
ServiceReady == 220
ClosingControlConnection == 221
ClosingDataConnection == 226
EnteringPassiveMode == 227
UserLoggedIn == 230
AuthOkayNoDataNeeded == 234
FileActionOkay == 250
DirCreated == 257
NeedPassword == 331
FileActionPending == 350
CantOpenDataConnection == 425
ConnectionClosed == 426
TransientFileError == 450
LocalError == 451
OutOfSpace == 452
CommandSyntaxError == 500
ParameterSyntaxError == 501
CommandNotImplemented == 502
CommandNotImplementedForParameter == 504
FtpsRequired == 534
Resp533 == 533
BadCommandSequence == 503
NotLoggedIn == 530
FileError == 550
PageTypeUnknown == 551
ExceededStorageAllocation == 552
BadFileName == 553
HelpMessage == 214
SystemStatus == 211

\* Reply::new(code, msg) and the Reply::none() sentinel, which the codec
\* encodes as nothing.
Reply(code, msg) == [kind |-> "CodeAndMsg", code |-> code, msg |-> msg]
ReplyNone == [kind |-> "None", code |-> 0, msg |-> ""]

(***************************************************************************)
(* Errors.                                                                 *)
(***************************************************************************)
ControlChanErrorKind ==
  {"IOError", "ParseError", "InternalServerError", "AuthenticationError",
   "InternalMsgError", "UTF8Error", "UnknownCommand", "InvalidCommand",
   "ControlChannelTimeout"}

\* The parser's error kinds; "InvalidEOL" stands for the kinds the conversion
\* below handles in its catch-all arm.
ParseErrorKind ==
  {"UnknownCommand", "InvalidUTF8", "InvalidCommand", "InvalidToken", "InvalidEOL"}

\* impl From<ParseError> for ControlChanError
FromParseError(pk) ==
  CASE pk = "UnknownCommand" -> "UnknownCommand"
    [] pk = "InvalidUTF8"    -> "UTF8Error"
    [] pk = "InvalidCommand" -> "InvalidCommand"
    [] pk = "InvalidToken"   -> "UTF8Error"
    [] OTHER                 -> "InvalidCommand"

\* impl From<std::io::Error> for ControlChanError
FromIoError == "IOError"

\* Server::handle_control_channel_error
handle_control_channel_error(kind) ==
  CASE kind = "UnknownCommand" -> Reply(CommandSyntaxError, "Command not implemented")
    [] kind = "UTF8Error"      -> Reply(CommandSyntaxError, "Invalid UTF8 in command")
    [] kind = "InvalidCommand" -> Reply(ParameterSyntaxError, "Invalid Parameter")
    [] kind = "ControlChannelTimeout" ->
         Reply(ClosingControlConnection, "Session timed out. Closing control connection")
    [] OTHER -> Reply(LocalError, "Unknown internal server error, please try again later")

(***************************************************************************)
(* Configuration of the server the session belongs to.                     *)
(***************************************************************************)
\* certs_file and certs_password are both set (Server::ftps was called).
tls_configured == TRUE

(***************************************************************************)
(* Session (fields of Session read or written by the modelled code).       *)
(***************************************************************************)
SessionState == {"Start", "WaitPass", "WaitCmd"}
Users == {"alice"}
NoName == "-"

\* Session::new: a fresh session.
NewSession ==
  [state |-> "Start", username |-> NoName, cwd |-> <<"/">>, start_pos |-> 0,
   rename_from |-> NoName, cmd_tls |-> FALSE, data_tls |-> FALSE,
   data_abort_tx |-> FALSE, data_cmd_tx |-> FALSE]

(***************************************************************************)
(* Commands (Command) and internal messages (InternalMsg).                 *)
(***************************************************************************)
Cmd(verb, arg, n) == [verb |-> verb, arg |-> arg, n |-> n]

\* The commands handle_with_auth lets through without an auth check.
ExemptVerbs == {"Help", "User", "Pass", "Auth", "Feat", "Quit"}

\* Passwords: the authenticator accepts "good" and rejects "bad"; "nonutf8"
\* is a password whose bytes are not valid UTF-8.
Passwords == {"good", "bad", "nonutf8"}

Commands ==
  {Cmd("Help", "", 0), Cmd("Feat", "", 0), Cmd("Quit", "", 0)}
    \cup {Cmd("User", u, 0) : u \in Users}
    \cup {Cmd("Pass", p, 0) : p \in Passwords}
    \cup {Cmd("Auth", a, 0) : a \in {"TLS", "other"}}
    \cup {Cmd("Type", a, 0) : a \in {"I", "A"}}
    \cup {Cmd("Allo", "", 0), Cmd("Abor", "", 0), Cmd("Pasv", "", 0), Cmd("CCC", "", 0)}
    \cup {Cmd("Rest", "", n) : n \in 1..MaxOffset}
    \cup {Cmd(v, "f", 0) : v \in {"Retr", "Stor", "List"}}

IMsg(tag) == [tag |-> tag, code |-> 0, text |-> "", kind |-> ""]
CommandChannelReply(code, text) ==
  [tag |-> "CommandChannelReply", code |-> code, text |-> text, kind |-> ""]

\* storage::ErrorKind
StorageErrorKind ==
  {"TransientFileNotAvailable", "PermanentFileNotAvailable", "PermissionDenied",
   "LocalError", "PageTypeUnknown", "InsufficientStorageSpaceError",
   "ExceededStorageAllocationError", "FileNameNotAllowedError"}

\* InternalMsg::StorageError(error) with error.kind() = kind
StorageError(kind) == [IMsg("StorageError") EXCEPT !.kind = kind]
StorageErrorMsgs == {StorageError(k) : k \in StorageErrorKind}

\* What a data pump reports when it ends.
DataTaskMsgs ==
  {IMsg(t) : t \in {"SendData", "WrittenData", "DirectorySuccessfullyListed",
                    "WriteFailed", "ConnectionReset", "UnknownRetrieveError"}}

(***************************************************************************)
(* Command handlers.  A handler returns                                    *)
(*   res     "Ok" or "Err"                                                 *)
(*   reply   the reply of an Ok result                                     *)
(*   err     the ControlChanErrorKind of an Err result                     *)
(*   session the session after the handler                                 *)
(*   msgs    the internal messages the handler sent on tx                  *)
(*   spawn   TRUE when a data task was handed a transfer                   *)
(*   assign  TRUE when AssignDataPortCommand went to the proxy loop        *)
(*   next    TRUE when the auth gate called the handler behind it          *)
(***************************************************************************)
Ok(reply, s) ==
  [res |-> "Ok", reply |-> reply, err |-> "", session |-> s, msgs |-> <<>>,
   spawn |-> FALSE, assign |-> FALSE, next |-> TRUE]
OkSend(reply, s, m) == [Ok(reply, s) EXCEPT !.msgs = <<m>>]
Err(kind, s) ==
  [res |-> "Err", reply |-> ReplyNone, err |-> kind, session |-> s, msgs |-> <<>>,
   spawn |-> FALSE, assign |-> FALSE, next |-> TRUE]

\* Authenticator::authenticate
authenticate(user, pass) == pass = "good"

\* Type::handle switching the representation type on its argument.
Type_handle_Switching(cmd, s) ==
  IF cmd.arg = "A"
    THEN Ok(Reply(CommandOkay, "Switching to ASCII mode"), [s EXCEPT !.start_pos = 0])
    ELSE Ok(Reply(CommandOkay, "Always in binary mode"), s)

\* Type::handle
Type_handle(cmd, s) == Ok(Reply(CommandOkay, "Always in binary mode"), s)

\* Allo::handle
Allo_handle(cmd, s) == Ok(Reply(CommandOkayNotImplemented, "Ignored"), s)

\* Abor::handle reading data_abort_tx without taking it.
Abor_handle_NoTake(cmd, s) ==
  IF s.data_abort_tx
    THEN Ok(Reply(ClosingDataConnection, "Closed data channel"), s)
    ELSE Ok(Reply(ClosingDataConnection, "Data channel already closed"), s)

\* Abor::handle
Abor_handle(cmd, s) ==
  IF s.data_abort_tx
    THEN Ok(Reply(ClosingDataConnection, "Closed data channel"),
            [s EXCEPT !.data_abort_tx = FALSE])
    ELSE Ok(Reply(ClosingDataConnection, "Data channel already closed"), s)

\* User::handle
User_handle(cmd, s) ==
  Ok(Reply(NeedPassword, "Password Required"),
     [s EXCEPT !.state = "WaitPass", !.username = cmd.arg])

\* Pass::handle
Pass_handle(cmd, s) ==
  IF s.state # "WaitPass"
    THEN Ok(Reply(BadCommandSequence, "Please give me a username first"), s)
    ELSE IF cmd.arg = "nonutf8"
      THEN Err("UTF8Error", s)
      ELSE IF authenticate(s.username, cmd.arg)
        THEN OkSend(ReplyNone, s, IMsg("AuthSuccess"))
        ELSE OkSend(ReplyNone, s, IMsg("AuthFailed"))

\* Quit::handle
Quit_handle(cmd, s) ==
  OkSend(Reply(ClosingControlConnection, "Bye!"), s, IMsg("Quit"))

\* Help::handle
Help_handle(cmd, s) == Ok(Reply(HelpMessage, "Help"), s)

\* Feat::handle
Feat_handle(cmd, s) == Ok(Reply(SystemStatus, "Extensions supported"), s)

\* Auth::handle
Auth_handle(cmd, s) ==
  IF ~tls_configured
    THEN Ok(Reply(CommandNotImplemented, "TLS/SSL not configured"), s)
    ELSE IF cmd.arg # "TLS"
      THEN Ok(Reply(CommandNotImplementedForParameter, "Auth type not implemented"), s)
      ELSE IF s.cmd_tls
        THEN Ok(Reply(FtpsRequired, "Already secure"), s)
        ELSE OkSend(Reply(AuthOkayNoDataNeeded, "Switching to TLS"), s,
                    IMsg("SecureControlChannel"))

\* Ccc::handle
Ccc_handle(cmd, s) ==
  IF ~tls_configured
    THEN Ok(Reply(CommandNotImplemented, "TLS/SSL not configured"), s)
    ELSE IF s.cmd_tls
      THEN OkSend(Reply(CommandOkay, "control channel in plaintext now"), s,
                  IMsg("PlaintextControlChannel"))
      ELSE Ok(Reply(Resp533, "control channel already in plaintext mode"), s)

\* Rest::handle
Rest_handle(cmd, s) ==
  Ok(Reply(FileActionPending, "Restarting at offset"), [s EXCEPT !.start_pos = cmd.n])

\* Rnfr::handle
Rnfr_handle(cmd, s) ==
  Ok(Reply(FileActionPending, "Tell me, what would you like the new name to be?"),
     [s EXCEPT !.rename_from = cmd.arg])

\* Prot::handle
Prot_handle(cmd, s) ==
  Ok(Reply(CommandOkay, "PROT OK"), [s EXCEPT !.data_tls = (cmd.arg = "P")])

\* Pasv::handle.  In PROXY mode the handler asks the proxy loop for a port
\* and replies nothing itself; otherwise it opens the passive listener and
\* replies 227.
Pasv_handle(cmd, s, proxy) ==
  IF proxy
    THEN [Ok(ReplyNone, s) EXCEPT !.assign = TRUE]
    ELSE Ok(Reply(EnteringPassiveMode, "Entering Passive Mode (h1,h2,h3,h4,p1,p2)"),
            [s EXCEPT !.data_cmd_tx = TRUE])

\* Pwd::execute: format!("\"{}\"", session.cwd.as_path().display()); a path
\* and the reply text are sequences of characters.
Pwd_execute(cmd, s) == Ok(Reply(DirCreated, <<"\"">> \o s.cwd \o <<"\"">>), s)

\* Retr::handle, Stor::handle, List::handle: hand the transfer to the data
\* task of the passive connection, or fail when there is none.
Transfer_handle(cmd, s) ==
  IF s.data_cmd_tx
    THEN [Ok(Reply(FileStatusOkay, "Sending data"),
             [s EXCEPT !.data_cmd_tx = FALSE, !.data_abort_tx = TRUE])
          EXCEPT !.spawn = TRUE]
    ELSE Ok(Reply(CantOpenDataConnection, "No data connection established"), s)

\* Server::handle_command
handle_command(cmd, s, proxy) ==
  CASE cmd.verb = "User" -> User_handle(cmd, s)
    [] cmd.verb = "Pass" -> Pass_handle(cmd, s)
    [] cmd.verb = "Type" -> Type_handle(cmd, s)
    [] cmd.verb = "Help" -> Help_handle(cmd, s)
    [] cmd.verb = "Pasv" -> Pasv_handle(cmd, s, proxy)
    [] cmd.verb \in {"Retr", "Stor", "List"} -> Transfer_handle(cmd, s)
    [] cmd.verb = "Feat" -> Feat_handle(cmd, s)
    [] cmd.verb = "Quit" -> Quit_handle(cmd, s)
    [] cmd.verb = "Allo" -> Allo_handle(cmd, s)
    [] cmd.verb = "Abor" -> Abor_handle(cmd, s)
    [] cmd.verb = "Rnfr" -> Rnfr_handle(cmd, s)
    [] cmd.verb = "Auth" -> Auth_handle(cmd, s)
    [] cmd.verb = "Prot" -> Prot_handle(cmd, s)
    [] cmd.verb = "Rest" -> Rest_handle(cmd, s)
    [] cmd.verb = "CCC" -> Ccc_handle(cmd, s)
    [] cmd.verb = "Pwd" -> Pwd_execute(cmd, s)

\* The StorageError arm with the replies of the two "file not available"
\* kinds exchanged.
StorageErrorReply_Swapped(kind) ==
  CASE kind = "ExceededStorageAllocationError" ->
         Reply(ExceededStorageAllocation, "Exceeded storage allocation")
    [] kind = "FileNameNotAllowedError" -> Reply(BadFileName, "File name not allowed")
    [] kind = "InsufficientStorageSpaceError" -> Reply(OutOfSpace, "Insufficient storage space")
    [] kind = "LocalError" -> Reply(LocalError, "Local error")
    [] kind = "PageTypeUnknown" -> Reply(PageTypeUnknown, "Page type unknown")
    [] kind = "TransientFileNotAvailable" -> Reply(FileError, "File not found")
    [] kind = "PermanentFileNotAvailable" -> Reply(TransientFileError, "File not found")
    [] kind = "PermissionDenied" -> Reply(FileError, "Permission denied")

\* The StorageError arm of handle_internal_msg: the reply for each ErrorKind.
StorageErrorReply(kind) ==
  CASE kind = "ExceededStorageAllocationError" ->
         Reply(ExceededStorageAllocation, "Exceeded storage allocation")
    [] kind = "FileNameNotAllowedError" -> Reply(BadFileName, "File name not allowed")
    [] kind = "InsufficientStorageSpaceError" -> Reply(OutOfSpace, "Insufficient storage space")
    [] kind = "LocalError" -> Reply(LocalError, "Local error")
    [] kind = "PageTypeUnknown" -> Reply(PageTypeUnknown, "Page type unknown")
    [] kind = "TransientFileNotAvailable" -> Reply(TransientFileError, "File not found")
    [] kind = "PermanentFileNotAvailable" -> Reply(FileError, "File not found")
    [] kind = "PermissionDenied" -> Reply(FileError, "Permission denied")

\* handle_internal_msg with an AuthFailed arm that logs the session in.
handle_internal_msg_FailedLogsIn(msg, s) ==
  CASE msg.tag = "NotFound" -> Ok(Reply(FileError, "File not found"), s)
    [] msg.tag = "PermissionDenied" -> Ok(Reply(FileError, "Permision denied"), s)
    [] msg.tag = "SendingData" -> Ok(Reply(FileStatusOkay, "Sending Data"), s)
    [] msg.tag = "SendData" ->
         Ok(Reply(ClosingDataConnection, "Successfully sent"), [s EXCEPT !.start_pos = 0])
    [] msg.tag = "WriteFailed" -> Ok(Reply(TransientFileError, "Failed to write file"), s)
    [] msg.tag = "ConnectionReset" ->
         Ok(Reply(ConnectionClosed, "Datachannel unexpectedly closed"), s)
    [] msg.tag = "WrittenData" ->
         Ok(Reply(ClosingDataConnection, "File successfully written"),
            [s EXCEPT !.start_pos = 0])
    [] msg.tag = "DataConnectionClosedAfterStor" ->
         Ok(Reply(FileActionOkay, "unFTP holds your data for you"), s)
    [] msg.tag = "UnknownRetrieveError" -> Ok(Reply(TransientFileError, "Unknown Error"), s)
    [] msg.tag = "DirectorySuccessfullyListed" ->
         Ok(Reply(ClosingDataConnection, "Listed the directory"), s)
    [] msg.tag = "CwdSuccess" -> Ok(Reply(FileActionOkay, "Successfully cwd"), s)
    [] msg.tag = "DelSuccess" -> Ok(Reply(FileActionOkay, "File successfully removed"), s)
    [] msg.tag = "DelFail" -> Ok(Reply(TransientFileError, "Failed to delete the file"), s)
    [] msg.tag = "Quit" -> Ok(Reply(ClosingControlConnection, "Bye!"), s)
    [] msg.tag = "SecureControlChannel" -> Ok(ReplyNone, [s EXCEPT !.cmd_tls = TRUE])
    [] msg.tag = "PlaintextControlChannel" -> Ok(ReplyNone, [s EXCEPT !.cmd_tls = FALSE])
    [] msg.tag = "MkdirSuccess" -> Ok(Reply(DirCreated, msg.text), s)
    [] msg.tag = "MkdirFail" -> Ok(Reply(FileError, "Failed to create directory"), s)
    [] msg.tag = "AuthSuccess" ->
         Ok(Reply(UserLoggedIn, "User logged in, proceed"), [s EXCEPT !.state = "WaitCmd"])
    [] msg.tag = "AuthFailed" ->
         Ok(Reply(NotLoggedIn, "Authentication failed"), [s EXCEPT !.state = "WaitCmd"])
    [] msg.tag = "StorageError" -> Ok(StorageErrorReply(msg.kind), s)
    [] msg.tag = "CommandChannelReply" -> Ok(Reply(msg.code, msg.text), s)

\* Server::handle_internal_msg
handle_internal_msg(msg, s) ==
  CASE msg.tag = "NotFound" -> Ok(Reply(FileError, "File not found"), s)
    [] msg.tag = "PermissionDenied" -> Ok(Reply(FileError, "Permision denied"), s)
    [] msg.tag = "SendingData" -> Ok(Reply(FileStatusOkay, "Sending Data"), s)
    [] msg.tag = "SendData" ->
         Ok(Reply(ClosingDataConnection, "Successfully sent"), [s EXCEPT !.start_pos = 0])
    [] msg.tag = "WriteFailed" -> Ok(Reply(TransientFileError, "Failed to write file"), s)
    [] msg.tag = "ConnectionReset" ->
         Ok(Reply(ConnectionClosed, "Datachannel unexpectedly closed"), s)
    [] msg.tag = "WrittenData" ->
         Ok(Reply(ClosingDataConnection, "File successfully written"),
            [s EXCEPT !.start_pos = 0])
    [] msg.tag = "DataConnectionClosedAfterStor" ->
         Ok(Reply(FileActionOkay, "unFTP holds your data for you"), s)
    [] msg.tag = "UnknownRetrieveError" -> Ok(Reply(TransientFileError, "Unknown Error"), s)
    [] msg.tag = "DirectorySuccessfullyListed" ->
         Ok(Reply(ClosingDataConnection, "Listed the directory"), s)
    [] msg.tag = "CwdSuccess" -> Ok(Reply(FileActionOkay, "Successfully cwd"), s)
    [] msg.tag = "DelSuccess" -> Ok(Reply(FileActionOkay, "File successfully removed"), s)
    [] msg.tag = "DelFail" -> Ok(Reply(TransientFileError, "Failed to delete the file"), s)
    [] msg.tag = "Quit" -> Ok(Reply(ClosingControlConnection, "Bye!"), s)
    [] msg.tag = "SecureControlChannel" -> Ok(ReplyNone, [s EXCEPT !.cmd_tls = TRUE])
    [] msg.tag = "PlaintextControlChannel" -> Ok(ReplyNone, [s EXCEPT !.cmd_tls = FALSE])
    [] msg.tag = "MkdirSuccess" -> Ok(Reply(DirCreated, msg.text), s)
    [] msg.tag = "MkdirFail" -> Ok(Reply(FileError, "Failed to create directory"), s)
    [] msg.tag = "AuthSuccess" ->
         Ok(Reply(UserLoggedIn, "User logged in, proceed"), [s EXCEPT !.state = "WaitCmd"])
    [] msg.tag = "AuthFailed" -> Ok(Reply(NotLoggedIn, "Authentication failed"), s)
    [] msg.tag = "StorageError" -> Ok(StorageErrorReply(msg.kind), s)
    [] msg.tag = "CommandChannelReply" -> Ok(Reply(msg.code, msg.text), s)

(***************************************************************************)
(* Events and the dispatch chain.                                          *)
(***************************************************************************)
NoCmd == Cmd("", "", 0)
NoMsg == IMsg("")
CommandEvent(cmd) == [type |-> "Command", cmd |-> cmd, msg |-> NoMsg]
InternalMsgEvent(msg) == [type |-> "InternalMsg", cmd |-> NoCmd, msg |-> msg]
\* No event: the loop is not inside the handler chain.
NoEvent == [type |-> "None", cmd |-> NoCmd, msg |-> NoMsg]

\* Server::handle_event
handle_event(event, s, proxy) ==
  IF event.type = "Command"
    THEN handle_command(event.cmd, s, proxy)
    ELSE handle_internal_msg(event.msg, s)

\* The match arm of handle_with_auth that passes the event on unchecked.
AuthExempt(event) ==
  \/ event.type = "InternalMsg"
  \/ event.type = "Command" /\ event.cmd.verb \in ExemptVerbs

\* handle_with_auth with the check made against Start only, so that a
\* session waiting for its password passes the gate.
handle_with_auth_StartOnly(event, s, proxy) ==
  IF AuthExempt(event)
    THEN handle_event(event, s, proxy)
    ELSE IF s.state = "Start"
      THEN [Ok(Reply(NotLoggedIn, "Please authenticate"), s) EXCEPT !.next = FALSE]
      ELSE handle_event(event, s, proxy)

\* handle_with_auth rejecting with a reset of the login and of the restart
\* offset.
handle_with_auth_Reset(event, s, proxy) ==
  IF AuthExempt(event)
    THEN handle_event(event, s, proxy)
    ELSE IF s.state # "WaitCmd"
      THEN [Ok(Reply(NotLoggedIn, "Please authenticate"),
               [s EXCEPT !.state = "Start", !.start_pos = 0])
            EXCEPT !.next = FALSE]
      ELSE handle_event(event, s, proxy)

\* handle_with_auth rejecting with 503 Bad sequence of commands.
handle_with_auth_BadSequence(event, s, proxy) ==
  IF AuthExempt(event)
    THEN handle_event(event, s, proxy)
    ELSE IF s.state # "WaitCmd"
      THEN [Ok(Reply(BadCommandSequence, "Please authenticate"), s) EXCEPT !.next = FALSE]
      ELSE handle_event(event, s, proxy)

\* Server::handle_with_auth
handle_with_auth(event, s, proxy) ==
  IF AuthExempt(event)
    THEN handle_event(event, s, proxy)
    ELSE IF s.state # "WaitCmd"
      THEN [Ok(Reply(NotLoggedIn, "Please authenticate"), s) EXCEPT !.next = FALSE]
      ELSE handle_event(event, s, proxy)

\* Server::handle_with_logging
handle_with_logging(event, s, proxy) == handle_with_auth(event, s, proxy)

(***************************************************************************)
(* State.                                                                  *)
(*                                                                         *)
(* loop is the position of the event loop task: "running" while it loops,  *)
(* else the return that ended it: "quit" (InternalMsg::Quit), "closed"     *)
(* (close_connection), "chain_error" (the dispatch chain returned Err),    *)
(* "send_failed" (reply_sink.send failed) or "panicked" (an unwrap failed).*)
(***************************************************************************)
VARIABLES
  session,         \* the Session behind the Arc<Mutex<..>>
  loop,            \* the event loop task: "running", or how it ended
  control_msg_rx,  \* internal messages sent on control_msg_tx, not yet polled
  command_source,  \* "open", or "ended" once the fused stream has yielded None
  transport,       \* what the codec frames: "plain" or "tls"
  data_tasks,      \* data transfers running
  proxyloop_rx,    \* AssignDataPortCommand messages waiting in the proxy loop
  proxy_mode,      \* Server::proxy_protocol_mode is set
  control_connection_info, \* family of the PROXY header's from_ip, or "None"
  proxyloop,       \* the proxy loop: "running", "panicked", or "none" without PROXY mode
  reply_sink,      \* what the latest iteration handed to reply_sink.send
  timeout_delay,   \* ticks elapsed on the timer the current iteration armed
  idle_for,        \* ticks elapsed since the loop last handled an event
  sessions,        \* the sessions the proxy loop created, in order of creation
  switchboard,     \* ProxyProtocolSwitchboard: the reservations
  proxyloop_msg_rx, \* sessions whose AssignDataPortCommand waits in the proxy loop
  proxy_log,       \* what the proxy loop did with the latest connection
  external_control_port, \* ProxyParams.external_control_port
  server_passive_ports,  \* Server.passive_ports, the range the PROXY listener checks
  switchboard_port_range, \* the range ProxyProtocolSwitchboard::new was given
  session_lock,    \* who holds the session's Mutex between steps: "free" or "proxyloop"
  pending          \* the event whose handler waits for the session's Mutex, or NoEvent

\* The clock of the idle timer.
timervars == <<timeout_delay, idle_for>>
\* The proxy loop's sessions and switchboard.
\* What the builder calls configure for PROXY mode.
proxyparams == <<external_control_port, server_passive_ports, switchboard_port_range>>
\* The session's Mutex as the proxy loop and the event loop contend for it.
lockvars == <<session_lock, pending>>
switchvars ==
  <<sessions, switchboard, proxyloop_msg_rx, proxy_log, proxyparams>>

vars ==
  <<session, loop, control_msg_rx, command_source, transport, data_tasks,
    proxyloop_rx, proxy_mode, control_connection_info, proxyloop, reply_sink,
    timeout_delay, idle_for, sessions, switchboard, proxyloop_msg_rx, proxy_log,
    external_control_port, server_passive_ports, switchboard_port_range,
    session_lock, pending>>

\* reply_sink holds the replies the latest loop iteration handed to
\* reply_sink.send (none, or one) and whether the send succeeded.
Sent(reply, ok) == [replies |-> <<reply>>, ok |-> ok]
NothingSent == [replies |-> <<>>, ok |-> TRUE]

\* The task of a data pump's report in the channel: which InternalMsg it is
\* shows when the loop polls it.
DataTaskReport == IMsg("DataTaskReport")

\* A connection as the PROXY header gives it (ConnectionTuple; from_port and
\* to_ip are read nowhere).
ConnectionTuple(from_ip, to_port) == [from_ip |-> from_ip, to_port |-> to_port]
\* What the proxy loop did with the latest connection: the route it took,
\* the connection when it logs it as unexpected, and the session whose data
\* pump got the stream when the connection was paired.
Logged(route, conn, s) == [route |-> route, conn |-> conn, session |-> s]
NoConnection == ConnectionTuple(<<>>, 0)
NothingLogged == Logged("none", NoConnection, 0)

\* spawn_control_channel_loop up to tokio::spawn: the session is created, the
\* greeting is written and the loop task starts.
Init ==
  /\ session = NewSession
  /\ loop = "running"
  /\ control_msg_rx = <<>>
  /\ command_source = "open"
  /\ transport = "plain"
  /\ data_tasks = 0
  /\ proxyloop_rx = 0
  /\ proxy_mode \in BOOLEAN
  /\ control_connection_info \in (IF proxy_mode THEN {"V4", "V6"} ELSE {"None"})
  /\ proxyloop = IF proxy_mode THEN "running" ELSE "none"
  /\ reply_sink = Sent(Reply(ServiceReady, "Welcome to the libunftp FTP server"), TRUE)
  /\ timeout_delay = 0
  /\ idle_for = 0
  /\ sessions = <<>>
  /\ switchboard = {}
  /\ proxyloop_msg_rx = <<>>
  /\ proxy_log = NothingLogged
  /\ external_control_port = ExampleControlPort
  /\ server_passive_ports = passive_ports
  /\ switchboard_port_range = passive_ports
  /\ session_lock = "free"
  /\ pending = NoEvent

\* The errors the command source can yield: a parse error or an IO error,
\* converted to ControlChanError.
SourceErrors == {FromParseError(pk) : pk \in ParseErrorKind} \cup {FromIoError}

\* The Some(Ok(event)) arm of the loop from event_handler_chain(event) on,
\* with `rest` left in the internal channel: Err ends the task without a
\* reply; Ok sends the reply (Reply::none() encodes nothing) and ends the task
\* if the send fails.
Dispatch(event, rest, sendok) ==
  LET r == handle_with_logging(event, session, proxy_mode) IN
  /\ Len(rest) + Len(r.msgs) <= ControlMsgBuffer
  /\ r.spawn => data_tasks < MaxTransfers
  /\ (r.assign /\ proxyloop = "running") => proxyloop_rx < ProxyLoopBuffer
  /\ session' = r.session
  /\ control_msg_rx' = rest \o r.msgs
  /\ data_tasks' = IF r.spawn THEN data_tasks + 1 ELSE data_tasks
  /\ proxyloop_rx' = IF r.assign /\ proxyloop = "running"
                       THEN proxyloop_rx + 1 ELSE proxyloop_rx
  /\ IF r.res = "Err"
       THEN loop' = "chain_error" /\ reply_sink' = NothingSent
       ELSE IF r.reply.kind = "None"
         THEN loop' = "running" /\ reply_sink' = NothingSent
         ELSE /\ loop' = IF sendok THEN "running" ELSE "send_failed"
              /\ reply_sink' = Sent(r.reply, sendok)

\* One iteration whose select polled the command cmd.
CommandStep(cmd, sendok) ==
  /\ loop = "running"
  /\ command_source = "open"
  /\ Dispatch(CommandEvent(cmd), control_msg_rx, sendok)
  /\ UNCHANGED <<command_source, transport, proxy_mode, control_connection_info, proxyloop>>

LoopCommand ==
  \E cmd \in Commands, sendok \in BOOLEAN :
    CommandStep(cmd, sendok) /\ UNCHANGED <<timervars, switchvars, lockvars>>

\* Whether the loop closes the connection after the reply to an error.
close_connection(reply) == reply.code = ClosingControlConnection

\* The Some(Err(e)) arm of the loop.
HandleError(e, sendok) ==
  LET reply == handle_control_channel_error(e) IN
  /\ loop' = IF ~sendok THEN "send_failed"
              ELSE IF close_connection(reply) THEN "closed" ELSE "running"
  /\ reply_sink' = Sent(reply, sendok)
  /\ UNCHANGED <<session, control_msg_rx, command_source, transport, data_tasks,
                 proxyloop_rx, proxy_mode, control_connection_info, proxyloop>>

\* One iteration whose select polled the error e of the command source.
SourceErrorStep(e, sendok) ==
  /\ loop = "running"
  /\ command_source = "open"
  /\ HandleError(e, sendok)

LoopSourceError ==
  \E e \in SourceErrors, sendok \in BOOLEAN :
    SourceErrorStep(e, sendok) /\ UNCHANGED <<timervars, switchvars, lockvars>>

\* One iteration whose select saw timeout_delay elapse: the timer is armed
\* anew by every iteration and fires when idle_session_timeout passes before
\* another branch is polled.
TimeoutStep(sendok) ==
  /\ loop = "running"
  /\ HandleError("ControlChannelTimeout", sendok)

LoopTimeout ==
  \E sendok \in BOOLEAN : TimeoutStep(sendok) /\ UNCHANGED <<timervars, switchvars, lockvars>>

\* The loop without its early return on InternalMsg::Quit.
QuitReceived_Never(msg) == FALSE

\* if let Event::InternalMsg(InternalMsg::Quit) = event
QuitReceived(msg) == msg.tag = "Quit"

\* The InternalMsg values a message of the channel can turn out to be.
Polled(m) == IF m = DataTaskReport THEN DataTaskMsgs \cup StorageErrorMsgs ELSE {m}

\* One iteration whose select polled the internal message msg; `handshake`
\* tells whether the client completes the TLS handshake of an upgrade (it
\* cannot once it has closed its side); accept(io).await.unwrap() panics
\* the task otherwise.
InternalMsgStep(msg, handshake, sendok) ==
  /\ loop = "running"
  /\ control_msg_rx # <<>>
  /\ msg \in Polled(Head(control_msg_rx))
  /\ LET rest == Tail(control_msg_rx) IN
     IF QuitReceived(msg)
       THEN /\ loop' = "quit"
            /\ control_msg_rx' = rest
            /\ reply_sink' = NothingSent
            /\ UNCHANGED <<session, transport, data_tasks, proxyloop_rx>>
       ELSE IF msg.tag = "SecureControlChannel" /\ ~(handshake /\ command_source = "open")
         THEN /\ loop' = "panicked"
              /\ control_msg_rx' = rest
              /\ reply_sink' = NothingSent
              /\ UNCHANGED <<session, transport, data_tasks, proxyloop_rx>>
         ELSE /\ transport' = IF msg.tag = "SecureControlChannel" THEN "tls" ELSE transport
              /\ Dispatch(InternalMsgEvent(msg), rest, sendok)
  /\ UNCHANGED <<command_source, proxy_mode, control_connection_info, proxyloop>>

InternalMsgs ==
  DataTaskMsgs
    \cup StorageErrorMsgs
    \cup {IMsg(t) : t \in {"AuthSuccess", "AuthFailed", "Quit", "SecureControlChannel",
                           "PlaintextControlChannel"}}
    \cup {CommandChannelReply(EnteringPassiveMode,
                              "Entering Passive Mode (h1,h2,h3,h4,p1,p2)")}

LoopInternalMsg ==
  \E msg \in InternalMsgs, handshake \in BOOLEAN, sendok \in BOOLEAN :
    InternalMsgStep(msg, handshake, sendok) /\ UNCHANGED <<timervars, switchvars, lockvars>>

\* The client closes the control socket: the command source yields None and
\* the select goes on waiting for its other branches.
SourceEnd ==
  /\ loop = "running"
  /\ command_source = "open"
  /\ command_source' = "ended"
  /\ UNCHANGED <<session, loop, control_msg_rx, transport, data_tasks,
                 proxyloop_rx, proxy_mode, control_connection_info, proxyloop,
                 reply_sink, timervars, switchvars, lockvars>>

\* A data pump ends and reports on the internal channel; with the loop gone
\* the receiver is dropped and the report is lost.
DataTaskDone ==
  /\ data_tasks > 0
  /\ data_tasks' = data_tasks - 1
  /\ session' = [session EXCEPT !.data_abort_tx = FALSE]
  /\ IF loop = "running"
       THEN /\ Len(control_msg_rx) < ControlMsgBuffer
            /\ control_msg_rx' = Append(control_msg_rx, DataTaskReport)
       ELSE UNCHANGED control_msg_rx
  /\ UNCHANGED <<loop, command_source, transport, proxyloop_rx, proxy_mode,
                 control_connection_info, proxyloop,
                 reply_sink, timervars, switchvars, lockvars>>

\* The proxy loop serves an AssignDataPortCommand
\* (select_and_register_passive_port): it reserves a port and sends the
\* deferred 227 on the session's internal channel.  Each unwrap and the
\* panic! of the V6 arm abort the proxy loop: no port is free, the control
\* connection came from an IPv6 address, or the session's event loop is gone
\* and its receiver dropped.
AssignDataPortStep(port_free) ==
  /\ proxyloop = "running"
  /\ proxyloop_rx > 0
  /\ IF ~port_free \/ control_connection_info = "V6" \/ loop # "running"
       THEN /\ proxyloop' = "panicked"
            /\ proxyloop_rx' = 0
            /\ UNCHANGED control_msg_rx
       ELSE /\ Len(control_msg_rx) < ControlMsgBuffer
            /\ proxyloop_rx' = proxyloop_rx - 1
            /\ control_msg_rx' = Append(control_msg_rx,
                 CommandChannelReply(EnteringPassiveMode,
                                     "Entering Passive Mode (h1,h2,h3,h4,p1,p2)"))
            /\ UNCHANGED proxyloop
  /\ UNCHANGED <<session, loop, command_source, transport, data_tasks,
                 proxy_mode, control_connection_info, reply_sink>>

AssignDataPort ==
  \E port_free \in BOOLEAN :
    AssignDataPortStep(port_free) /\ UNCHANGED <<timervars, switchvars, lockvars>>

Next ==
  \/ LoopCommand
  \/ LoopSourceError
  \/ LoopInternalMsg
  \/ LoopTimeout
  \/ SourceEnd
  \/ DataTaskDone
  \/ AssignDataPort

Spec == Init /\ [][Next]_vars

(***************************************************************************)
(* The event loop and the proxy loop contending for the session's Mutex.   *)
(* select_and_register_passive_port takes the Mutex and keeps it until it  *)
(* returns, its send on the session's channel included; a handler of the   *)
(* event loop that needs the Mutex meanwhile waits inside the handler      *)
(* chain with its event, and polls nothing until it has it.                *)
(***************************************************************************)
\* The events whose handling locks the session: a command that is not exempt
\* (handle_with_auth) and the internal messages whose arm of
\* handle_internal_msg locks it.
LocksSession(event) ==
  \/ event.type = "Command" /\ ~AuthExempt(event)
  \/ /\ event.type = "InternalMsg"
     /\ event.msg.tag \in {"SendData", "WrittenData", "SecureControlChannel",
                           "PlaintextControlChannel", "AuthSuccess"}

\* The loop polls the command cmd; its handler runs, or waits for the Mutex.
LockCommand ==
  /\ pending = NoEvent
  /\ \E cmd \in Commands, sendok \in BOOLEAN :
       IF session_lock = "proxyloop" /\ LocksSession(CommandEvent(cmd))
         THEN /\ loop = "running"
              /\ command_source = "open"
              /\ pending' = CommandEvent(cmd)
              /\ UNCHANGED <<session, loop, control_msg_rx, command_source, transport,
                             data_tasks, proxyloop_rx, proxy_mode,
                             control_connection_info, proxyloop, reply_sink,
                             session_lock>>
         ELSE CommandStep(cmd, sendok) /\ UNCHANGED lockvars
  /\ UNCHANGED <<timervars, switchvars>>

\* The loop polls the internal message msg; the TLS upgrade comes before the
\* handler chain, whose handler runs or waits for the Mutex.
LockInternalMsg ==
  /\ pending = NoEvent
  /\ \E msg \in InternalMsgs, handshake \in BOOLEAN, sendok \in BOOLEAN :
       IF /\ session_lock = "proxyloop"
          /\ LocksSession(InternalMsgEvent(msg))
          /\ msg.tag = "SecureControlChannel" => (handshake /\ command_source = "open")
         THEN /\ loop = "running"
              /\ control_msg_rx # <<>>
              /\ msg \in Polled(Head(control_msg_rx))
              /\ control_msg_rx' = Tail(control_msg_rx)
              /\ transport' = IF msg.tag = "SecureControlChannel" THEN "tls" ELSE transport
              /\ pending' = InternalMsgEvent(msg)
              /\ UNCHANGED <<session, loop, command_source, data_tasks, proxyloop_rx,
                             proxy_mode, control_connection_info, proxyloop, reply_sink,
                             session_lock>>
         ELSE InternalMsgStep(msg, handshake, sendok) /\ UNCHANGED lockvars
  /\ UNCHANGED <<timervars, switchvars>>

\* The Mutex is free again: the waiting handler takes it and the iteration
\* goes on.
LockResume ==
  /\ pending # NoEvent
  /\ session_lock = "free"
  /\ loop = "running"
  /\ \E sendok \in BOOLEAN : Dispatch(pending, control_msg_rx, sendok)
  /\ pending' = NoEvent
  /\ UNCHANGED <<command_source, transport, proxy_mode, control_connection_info,
                 proxyloop, session_lock, timervars, switchvars>>

LockSourceError == pending = NoEvent /\ LoopSourceError

LockTimeout == pending = NoEvent /\ LoopTimeout

\* The proxy loop takes an AssignDataPortCommand: reserve_next_free_port,
\* unwrapped, then session_arc.lock().await.
AssignLocks ==
  /\ proxyloop = "running"
  /\ proxyloop_rx > 0
  /\ session_lock = "free"
  /\ \E port_free \in BOOLEAN :
       IF port_free
         THEN /\ session_lock' = "proxyloop"
              /\ proxyloop_rx' = proxyloop_rx - 1
              /\ UNCHANGED proxyloop
         ELSE /\ proxyloop' = "panicked"
              /\ proxyloop_rx' = 0
              /\ UNCHANGED session_lock
  /\ UNCHANGED <<session, loop, control_msg_rx, command_source, transport, data_tasks,
                 proxy_mode, control_connection_info, reply_sink, pending,
                 timervars, switchvars>>

\* Holding the Mutex the proxy loop sends the 227 on the session's channel:
\* tx.send(..).await completes once the channel has room, and the Mutex is
\* released when the function returns.  The V6 arm and a dropped receiver
\* panic.
AssignSends ==
  /\ session_lock = "proxyloop"
  /\ session_lock' = "free"
  /\ IF control_connection_info = "V6" \/ loop # "running"
       THEN /\ proxyloop' = "panicked"
            /\ proxyloop_rx' = 0
            /\ UNCHANGED control_msg_rx
       ELSE /\ Len(control_msg_rx) < ControlMsgBuffer
            /\ control_msg_rx' = Append(control_msg_rx,
                 CommandChannelReply(EnteringPassiveMode,
                                     "Entering Passive Mode (h1,h2,h3,h4,p1,p2)"))
            /\ UNCHANGED <<proxyloop, proxyloop_rx>>
  /\ UNCHANGED <<session, loop, command_source, transport, data_tasks,
                 proxy_mode, control_connection_info, reply_sink, pending,
                 timervars, switchvars>>

LockNext ==
  \/ LockCommand
  \/ LockInternalMsg
  \/ LockResume
  \/ LockSourceError
  \/ LockTimeout
  \/ SourceEnd
  \/ DataTaskDone
  \/ AssignLocks
  \/ AssignSends

LockSpec == Init /\ [][LockNext]_vars

\* The select polls its ready branches in random order, so a message waiting
\* in the internal channel is polled sooner or later.
FairSpec == Spec /\ WF_vars(LoopInternalMsg)

(***************************************************************************)
(* PWD over working directories: a logged-in session whose cwd is any path *)
(* of at most MaxPathLen characters after the leading "/" is sent PWD.     *)
(***************************************************************************)
PathChars == {"/", "a", "\""}

RECURSIVE PathTails(_)
PathTails(n) ==
  IF n = 0 THEN {<<>>}
  ELSE LET shorter == PathTails(n - 1) IN
       shorter \cup {Append(t, c) : t \in {x \in shorter : Len(x) = n - 1},
                                    c \in PathChars}

Paths == {<<"/">> \o t : t \in PathTails(MaxPathLen)}

Pwd == Cmd("Pwd", "", 0)

PwdInit ==
  /\ session \in {[NewSession EXCEPT !.state = "WaitCmd", !.username = "alice",
                                     !.cwd = p] : p \in Paths}
  /\ loop = "running"
  /\ control_msg_rx = <<>>
  /\ command_source = "open"
  /\ transport = "plain"
  /\ data_tasks = 0
  /\ proxyloop_rx = 0
  /\ proxy_mode = FALSE
  /\ control_connection_info = "None"
  /\ proxyloop = "none"
  /\ reply_sink = Sent(Reply(UserLoggedIn, "User logged in, proceed"), TRUE)
  /\ timeout_delay = 0
  /\ idle_for = 0
  /\ sessions = <<>>
  /\ switchboard = {}
  /\ proxyloop_msg_rx = <<>>
  /\ proxy_log = NothingLogged
  /\ external_control_port = ExampleControlPort
  /\ server_passive_ports = passive_ports
  /\ switchboard_port_range = passive_ports
  /\ session_lock = "free"
  /\ pending = NoEvent

LoopPwd ==
  \E sendok \in BOOLEAN : CommandStep(Pwd, sendok) /\ UNCHANGED <<timervars, switchvars, lockvars>>

PwdSpec == PwdInit /\ [][LoopPwd]_vars

(***************************************************************************)
(* The event loop with the clock of its idle timer.  timeout_delay counts  *)
(* the ticks elapsed on the timer the current iteration created, idle_for  *)
(* the ticks since the loop last handled an event; the timeout branch is   *)
(* ready once idle_session_timeout (IdleTicks) has elapsed on the timer.   *)
(***************************************************************************)
\* The loop re-arming its timer only when it has handled a command.
delay_for_AfterCommands(event, elapsed) == IF event = "Command" THEN 0 ELSE elapsed

\* let mut timeout_delay = tokio::time::delay_for(idle_session_timeout) at
\* the top of the iteration that follows `event`: the ticks elapsed on the
\* timer that iteration waits on.
delay_for(event, elapsed) == 0

\* The loop has handled `event` and starts its next iteration.
NextIteration(event) ==
  /\ timeout_delay' = delay_for(event, timeout_delay)
  /\ idle_for' = 0
  /\ UNCHANGED <<switchvars, lockvars>>

TimedCommand ==
  \E cmd \in Commands, sendok \in BOOLEAN :
    CommandStep(cmd, sendok) /\ NextIteration("Command")

TimedSourceError ==
  \E e \in SourceErrors, sendok \in BOOLEAN :
    SourceErrorStep(e, sendok) /\ NextIteration("Error")

TimedInternalMsg ==
  \E msg \in InternalMsgs, handshake \in BOOLEAN, sendok \in BOOLEAN :
    InternalMsgStep(msg, handshake, sendok) /\ NextIteration("InternalMsg")

\* _ = &mut timeout_delay: the timer has run for idle_session_timeout.
TimedTimeout ==
  /\ timeout_delay = IdleTicks
  /\ LoopTimeout

\* A tick of the clock while the loop waits in its select.
Tick ==
  /\ loop = "running"
  /\ timeout_delay < IdleTicks
  /\ timeout_delay' = timeout_delay + 1
  /\ idle_for' = idle_for + 1
  /\ UNCHANGED <<session, loop, control_msg_rx, command_source, transport, data_tasks,
                 proxyloop_rx, proxy_mode, control_connection_info, proxyloop,
                 reply_sink, switchvars, lockvars>>

TimedNext ==
  \/ TimedCommand
  \/ TimedSourceError
  \/ TimedInternalMsg
  \/ TimedTimeout
  \/ Tick
  \/ SourceEnd
  \/ DataTaskDone
  \/ AssignDataPort

TimedSpec == Init /\ [][TimedNext]_vars

(***************************************************************************)
(* The proxy loop (listen_proxy_protocol_mode).  Each iteration of its     *)
(* select is one action: an accepted connection, routed by the destination *)
(* port of its PROXY header, or an AssignDataPortCommand.  The sessions it *)
(* creates run on their own tasks; of a session the model keeps what the   *)
(* proxy loop and the switchboard read and write.                          *)
(***************************************************************************)
\* Source addresses of PROXY headers.
SourceIps == {<<10, 0, 0, 5>>, <<10, 0, 0, 6>>}

\* Destination ports of PROXY headers: the control port, the passive ports
\* and a port that is neither.
DstPorts == ControlPorts \cup {PassivePortsStart - 1} \cup passive_ports

Connections == {ConnectionTuple(ip, port) : ip \in SourceIps, port \in DstPorts}

\* The session spawn_control_channel_loop creates for the connection conn.
ProxySession(conn) ==
  [control_connection_info |-> conn, control_msg_rx |-> <<>>]

\* A switchboard entry: the key (from_ip, port) and the session behind it.
Reservation(from_ip, port, s) == [from_ip |-> from_ip, port |-> port, session |-> s]

\* ProxyProtocolSwitchboard::get_session_by_incoming_data_connection: the
\* entries under the key of conn (none stands for None).
get_session_by_incoming_data_connection(sb, conn) ==
  {r \in sb : r.from_ip = conn.from_ip /\ r.port = conn.to_port}

\* ProxyProtocolSwitchboard::unregister
unregister(sb, conn) == sb \ get_session_by_incoming_data_connection(sb, conn)

\* reserve_next_free_port returning Err.
PortAllocationError == 0

\* The allocator taking any port of the range, reserved or not.
reserve_next_free_port_AnyPort(sb) == switchboard_port_range

\* ProxyProtocolSwitchboard::reserve_next_free_port: the ports it may return,
\* wherever its cursor stands: a port of the range no entry reserves, or Err
\* when there is none.
reserve_next_free_port(sb) ==
  LET free == {p \in switchboard_port_range : \A r \in sb : r.port # p} IN
  IF free = {} THEN {PortAllocationError} ELSE free

\* The deferred reply of select_and_register_passive_port; its text is kept
\* as the arguments of the format string.
PassiveModeReply(octets, port) ==
  LET p1 == port \div 256
      p2 == port - (p1 * 256)
  IN CommandChannelReply(EnteringPassiveMode,
                         <<octets[1], octets[2], octets[3], octets[4], p1, p2>>)

\* A panic of the proxy loop's task: the loop and its receiver are gone.
ProxyLoopPanics ==
  /\ proxyloop' = "panicked"
  /\ proxyloop_msg_rx' = <<>>

\* tcp_stream.shutdown(Shutdown::Both).unwrap() after the log line `route`.
ShutdownStream(route, conn, io_ok) ==
  /\ proxy_log' = Logged(route, IF route = "unexpected" THEN conn ELSE NoConnection, 0)
  /\ IF io_ok THEN UNCHANGED <<proxyloop, proxyloop_msg_rx>> ELSE ProxyLoopPanics
  /\ UNCHANGED <<sessions, switchboard>>

\* spawn_control_channel_loop called by the proxy loop: the session and its
\* loop exist once the greeting is written.
SpawnControlChannel(conn, io_ok) ==
  /\ Len(sessions) < MaxSessions
  /\ IF io_ok
       THEN /\ sessions' = Append(sessions, ProxySession(conn))
            /\ proxy_log' = Logged("control", NoConnection, 0)
       ELSE /\ UNCHANGED sessions
            /\ proxy_log' = Logged("control_failed", NoConnection, 0)
  /\ UNCHANGED <<switchboard, proxyloop, proxyloop_msg_rx>>

\* dispatch_data_connection leaving the entry of a paired connection in the
\* switchboard.
dispatch_data_connection_NoUnregister(conn, io_ok) ==
  LET found == get_session_by_incoming_data_connection(switchboard, conn) IN
  IF found # {}
    THEN LET s == (CHOOSE r \in found : TRUE).session IN
         /\ proxy_log' = Logged("data_pump", NoConnection, s)
         /\ UNCHANGED <<sessions, switchboard, proxyloop, proxyloop_msg_rx>>
    ELSE ShutdownStream("unexpected", conn, io_ok)

\* dispatch_data_connection dropping what is reserved on the port of a
\* connection it cannot pair.
dispatch_data_connection_ClearsPort(conn, io_ok) ==
  LET found == get_session_by_incoming_data_connection(switchboard, conn) IN
  IF found # {}
    THEN LET s == (CHOOSE r \in found : TRUE).session IN
         /\ switchboard' = unregister(switchboard, conn)
         /\ proxy_log' = Logged("data_pump", NoConnection, s)
         /\ UNCHANGED <<sessions, proxyloop, proxyloop_msg_rx>>
    ELSE /\ proxy_log' = Logged("unexpected", conn, 0)
         /\ switchboard' = {r \in switchboard : r.port # conn.to_port}
         /\ UNCHANGED <<sessions, proxyloop, proxyloop_msg_rx>>

\* Server::dispatch_data_connection
dispatch_data_connection(conn, io_ok) ==
  LET found == get_session_by_incoming_data_connection(switchboard, conn) IN
  IF found # {}
    THEN LET s == (CHOOSE r \in found : TRUE).session IN
         /\ switchboard' = unregister(switchboard, conn)
         /\ proxy_log' = Logged("data_pump", NoConnection, s)
         /\ UNCHANGED <<sessions, proxyloop, proxyloop_msg_rx>>
    ELSE ShutdownStream("unexpected", conn, io_ok)

\* The arm offering every connection to the data rendezvous before it looks
\* at the control port.
ProxyIncomingStep_RendezvousFirst(conn, io_ok) ==
  /\ proxyloop = "running"
  /\ IF get_session_by_incoming_data_connection(switchboard, conn) # {}
       THEN dispatch_data_connection(conn, io_ok)
       ELSE IF conn.to_port = external_control_port
         THEN SpawnControlChannel(conn, io_ok)
         ELSE ShutdownStream("unconfigured_port", conn, io_ok)
  /\ UNCHANGED <<session, loop, control_msg_rx, command_source, transport, data_tasks,
                 proxyloop_rx, proxy_mode, control_connection_info, reply_sink,
                 timervars, proxyparams, lockvars>>

\* The incoming.next() arm of the proxy loop for a connection whose PROXY
\* header reads conn; io_ok tells whether the write or the shutdown the arm
\* does on the stream succeeds.
ProxyIncomingStep(conn, io_ok) ==
  /\ proxyloop = "running"
  /\ IF conn.to_port = external_control_port
       THEN SpawnControlChannel(conn, io_ok)
       ELSE IF conn.to_port \notin server_passive_ports
         THEN ShutdownStream("unconfigured_port", conn, io_ok)
         ELSE dispatch_data_connection(conn, io_ok)
  /\ UNCHANGED <<session, loop, control_msg_rx, command_source, transport, data_tasks,
                 proxyloop_rx, proxy_mode, control_connection_info, reply_sink,
                 timervars, proxyparams, lockvars>>

ProxyIncoming ==
  \E conn \in Connections, io_ok \in BOOLEAN : ProxyIncomingStep(conn, io_ok)

\* The incoming.next() arm for a connection whose PROXY header cannot be
\* decoded: get_peer_from_proxy_header returns Err, the arm logs and goes on.
ProxyDecodeError ==
  /\ proxyloop = "running"
  /\ proxy_log' = Logged("decode_error", NoConnection, 0)
  /\ UNCHANGED <<session, loop, control_msg_rx, command_source, transport, data_tasks,
                 proxyloop_rx, proxy_mode, control_connection_info, reply_sink,
                 timervars, proxyparams, lockvars, sessions, switchboard, proxyloop,
                 proxyloop_msg_rx>>

\* select_and_register_passive_port taking the first port of the range when
\* reserve_next_free_port returns Err.
select_and_register_passive_port_UnwrapOr(s, port) ==
  LET conn == sessions[s].control_connection_info
      taken == IF port = PortAllocationError THEN PassivePortsStart ELSE port
  IN /\ switchboard' = switchboard \cup {Reservation(conn.from_ip, taken, s)}
     /\ Len(sessions[s].control_msg_rx) < ControlMsgBuffer
     /\ sessions' =
          [sessions EXCEPT ![s].control_msg_rx =
             Append(@, PassiveModeReply(conn.from_ip, taken))]
     /\ proxyloop_msg_rx' = Tail(proxyloop_msg_rx)
     /\ UNCHANGED proxyloop

\* select_and_register_passive_port sending the reply to the session that
\* opened the first control channel.
select_and_register_passive_port_FirstSession(s, port) ==
  LET conn == sessions[s].control_connection_info IN
  IF port = PortAllocationError
    THEN /\ ProxyLoopPanics
         /\ UNCHANGED <<sessions, switchboard>>
    ELSE /\ switchboard' = switchboard \cup {Reservation(conn.from_ip, port, s)}
         /\ Len(sessions[1].control_msg_rx) < ControlMsgBuffer
         /\ sessions' =
              [sessions EXCEPT ![1].control_msg_rx =
                 Append(@, PassiveModeReply(conn.from_ip, port))]
         /\ proxyloop_msg_rx' = Tail(proxyloop_msg_rx)
         /\ UNCHANGED proxyloop

\* Server::select_and_register_passive_port for the session at the head of
\* the proxy loop's channel, reserve_next_free_port returning `port`.
select_and_register_passive_port(s, port) ==
  LET conn == sessions[s].control_connection_info IN
  IF port = PortAllocationError
    THEN /\ ProxyLoopPanics
         /\ UNCHANGED <<sessions, switchboard>>
    ELSE /\ switchboard' = switchboard \cup {Reservation(conn.from_ip, port, s)}
         /\ Len(sessions[s].control_msg_rx) < ControlMsgBuffer
         /\ sessions' =
              [sessions EXCEPT ![s].control_msg_rx =
                 Append(@, PassiveModeReply(conn.from_ip, port))]
         /\ proxyloop_msg_rx' = Tail(proxyloop_msg_rx)
         /\ UNCHANGED proxyloop

\* The proxyloop_msg_rx.next() arm of the proxy loop.
ProxyAssignStep(port) ==
  /\ proxyloop = "running"
  /\ proxyloop_msg_rx # <<>>
  /\ port \in reserve_next_free_port(switchboard)
  /\ select_and_register_passive_port(Head(proxyloop_msg_rx), port)
  /\ UNCHANGED <<session, loop, control_msg_rx, command_source, transport, data_tasks,
                 proxyloop_rx, proxy_mode, control_connection_info, reply_sink,
                 timervars, proxy_log, proxyparams, lockvars>>

ProxyAssign ==
  \E port \in switchboard_port_range \cup {PortAllocationError} : ProxyAssignStep(port)

\* The session s handles PASV: its handler sends AssignDataPortCommand to the
\* proxy loop and replies nothing.
SessionPasv(s) ==
  /\ proxyloop \in {"running", "reading_header"}
  /\ Len(proxyloop_msg_rx) < ProxyLoopBuffer
  /\ proxyloop_msg_rx' = Append(proxyloop_msg_rx, s)
  /\ UNCHANGED <<session, loop, control_msg_rx, command_source, transport, data_tasks,
                 proxyloop_rx, proxy_mode, control_connection_info, proxyloop,
                 reply_sink, timervars, sessions, switchboard, proxy_log,
                 proxyparams, lockvars>>

\* The event loop of session s polls the CommandChannelReply at the head of
\* its channel and writes it to the control connection.
SessionWritesReply(s) ==
  /\ sessions[s].control_msg_rx # <<>>
  /\ sessions' = [sessions EXCEPT ![s].control_msg_rx = Tail(@)]
  /\ UNCHANGED <<session, loop, control_msg_rx, command_source, transport, data_tasks,
                 proxyloop_rx, proxy_mode, control_connection_info, proxyloop,
                 reply_sink, timervars, switchboard, proxyloop_msg_rx, proxy_log,
                 proxyparams, lockvars>>

\* The reservation r expires: the allocator takes its port for free again.
ReservationExpires(r) ==
  /\ switchboard' = switchboard \ {r}
  /\ UNCHANGED <<session, loop, control_msg_rx, command_source, transport, data_tasks,
                 proxyloop_rx, proxy_mode, control_connection_info, proxyloop,
                 reply_sink, timervars, sessions, proxyloop_msg_rx, proxy_log,
                 proxyparams, lockvars>>

\* The server in PROXY mode before its first connection, under either
\* configuration of the control port.
ProxyInit ==
  /\ session = NewSession
  /\ loop = "running"
  /\ control_msg_rx = <<>>
  /\ command_source = "open"
  /\ transport = "plain"
  /\ data_tasks = 0
  /\ proxyloop_rx = 0
  /\ proxy_mode = TRUE
  /\ control_connection_info = "V4"
  /\ proxyloop = "running"
  /\ reply_sink = Sent(Reply(ServiceReady, "Welcome to the libunftp FTP server"), TRUE)
  /\ timeout_delay = 0
  /\ idle_for = 0
  /\ sessions = <<>>
  /\ switchboard = {}
  /\ proxyloop_msg_rx = <<>>
  /\ proxy_log = NothingLogged
  /\ external_control_port \in ControlPorts
  /\ server_passive_ports = passive_ports
  /\ switchboard_port_range = passive_ports
  /\ session_lock = "free"
  /\ pending = NoEvent

ProxyNext ==
  \/ ProxyIncoming
  \/ ProxyDecodeError
  \/ ProxyAssign
  \/ \E s \in 1..Len(sessions) : SessionPasv(s)
  \/ \E s \in 1..Len(sessions) : SessionWritesReply(s)
  \/ \E r \in switchboard : ReservationExpires(r)

ProxySpec == ProxyInit /\ [][ProxyNext]_vars

(***************************************************************************)
(* The proxy loop reads the PROXY header inside the arm of its select:     *)
(* get_peer_from_proxy_header(&mut tcp_stream).await.  While it waits the  *)
(* loop is at "reading_header" and polls neither arm.  A client that sends *)
(* its header is the step ProxyIncoming, a malformed header the step       *)
(* ProxyDecodeError; here the client sends nothing.                        *)
(***************************************************************************)
ProxyHeaderNeverSent ==
  /\ proxyloop = "running"
  /\ proxyloop' = "reading_header"
  /\ UNCHANGED <<session, loop, control_msg_rx, command_source, transport, data_tasks,
                 proxyloop_rx, proxy_mode, control_connection_info, reply_sink,
                 timervars, proxyparams, lockvars, sessions, switchboard,
                 proxyloop_msg_rx, proxy_log>>

StallNext ==
  \/ ProxyNext
  \/ ProxyHeaderNeverSent

\* The runtime polls every task that can run: the proxy loop serves a
\* waiting AssignDataPortCommand when its select can take it, and a
\* session's event loop polls its internal channel.
FairStallSpec ==
  /\ ProxyInit
  /\ [][StallNext]_vars
  /\ WF_vars(ProxyAssign)
  /\ \A s \in 1..MaxSessions : WF_vars(s <= Len(sessions) /\ SessionWritesReply(s))

(***************************************************************************)
(* The builder calls that configure PROXY mode, in any order and number,    *)
(* followed by listen and the proxy loop.                                  *)
(***************************************************************************)
\* The ranges a caller passes to passive_ports: the intervals of a window
\* around the default range.
Ranges ==
  {a .. b : a \in (PassivePortsStart - 1) .. (PassivePortsStart + NumPassivePorts - 1),
            b \in (PassivePortsStart - 1) .. (PassivePortsStart + NumPassivePorts - 1)}
    \ {{}}

\* No ProxyParams and no switchboard yet.
NoControlPort == 0
NoRange == {}

\* Server::new: passive_ports at its default, PROXY mode off.
BuilderInit ==
  /\ session = NewSession
  /\ loop = "running"
  /\ control_msg_rx = <<>>
  /\ command_source = "open"
  /\ transport = "plain"
  /\ data_tasks = 0
  /\ proxyloop_rx = 0
  /\ proxy_mode = FALSE
  /\ control_connection_info = "V4"
  /\ proxyloop = "none"
  /\ reply_sink = Sent(Reply(ServiceReady, "Welcome to the libunftp FTP server"), TRUE)
  /\ timeout_delay = 0
  /\ idle_for = 0
  /\ sessions = <<>>
  /\ switchboard = {}
  /\ proxyloop_msg_rx = <<>>
  /\ proxy_log = NothingLogged
  /\ external_control_port = NoControlPort
  /\ server_passive_ports = passive_ports
  /\ switchboard_port_range = NoRange
  /\ session_lock = "free"
  /\ pending = NoEvent

\* Server::passive_ports(range)
Server_passive_ports(range) ==
  /\ proxyloop = "none"
  /\ server_passive_ports' = range
  /\ UNCHANGED <<session, loop, control_msg_rx, command_source, transport, data_tasks,
                 proxyloop_rx, proxy_mode, control_connection_info, proxyloop,
                 reply_sink, timervars, sessions, switchboard, proxyloop_msg_rx,
                 proxy_log, external_control_port, switchboard_port_range, lockvars>>

\* Server::proxy_protocol_mode(external_ip, port): the switchboard is built
\* over a clone of passive_ports as it is at the call.
Server_proxy_protocol_mode(port) ==
  /\ proxyloop = "none"
  /\ proxy_mode' = TRUE
  /\ external_control_port' = port
  /\ switchboard_port_range' = server_passive_ports
  /\ UNCHANGED <<session, loop, control_msg_rx, command_source, transport, data_tasks,
                 proxyloop_rx, control_connection_info, proxyloop,
                 reply_sink, timervars, sessions, switchboard, proxyloop_msg_rx,
                 proxy_log, server_passive_ports, lockvars>>

\* Server::listen with proxy_protocol_mode set: the proxy loop starts.
Server_listen ==
  /\ proxyloop = "none"
  /\ proxy_mode
  /\ proxyloop' = "running"
  /\ UNCHANGED <<session, loop, control_msg_rx, command_source, transport, data_tasks,
                 proxyloop_rx, proxy_mode, control_connection_info,
                 reply_sink, timervars, switchvars, lockvars>>

BuilderNext ==
  \/ \E range \in Ranges : Server_passive_ports(range)
  \/ \E port \in ControlPorts : Server_proxy_protocol_mode(port)
  \/ Server_listen
  \/ ProxyNext

BuilderSpec == BuilderInit /\ [][BuilderNext]_vars

(***************************************************************************)
(* Properties.                                                             *)
(***************************************************************************)
\* The loop iteration from this state to the next polled the command cmd
\* (whether its reply could be sent shows in reply_sink).
CommandPolled(cmd) ==
  /\ Len(control_msg_rx') >= Len(control_msg_rx)
  /\ CommandStep(cmd, reply_sink'.ok)

\* The loop iteration from this state to the next polled the internal
\* message msg (a failed TLS handshake shows in the panicked task).
MsgPolled(msg) ==
  /\ control_msg_rx # <<>>
  /\ control_msg_rx' = Tail(control_msg_rx)
  /\ msg \in Polled(Head(control_msg_rx))
  /\ InternalMsgStep(msg, loop' # "panicked", reply_sink'.ok)

\* The internal messages the next poll of the internal channel can yield.
PollableMsgs == IF control_msg_rx = <<>> THEN {} ELSE Polled(Head(control_msg_rx))

GateReply == Reply(NotLoggedIn, "Please authenticate")
NonExempt(cmd) == cmd.verb \notin ExemptVerbs

\* C1: the auth gate answers 530 "Please authenticate" without calling the
\* handler behind it exactly for a command outside the exempt set polled
\* while the session state is not WaitCmd; an exempt command, a command in
\* WaitCmd and every internal message reach the handler.
AuthGateDecides ==
  [][/\ \A cmd \in Commands :
          CommandPolled(cmd) =>
            LET gated == NonExempt(cmd) /\ session.state # "WaitCmd" IN
            /\ reply_sink'.replies = <<GateReply>> <=> gated
            /\ handle_with_auth(CommandEvent(cmd), session, proxy_mode).next <=> ~gated
     /\ \A msg \in PollableMsgs :
          MsgPolled(msg) =>
            /\ reply_sink'.replies # <<GateReply>>
            /\ handle_with_auth(InternalMsgEvent(msg), session, proxy_mode).next
    ]_vars

\* C1 witness: the gate has rejected a command of a session that is past
\* USER but not logged in.
AuthGateRejected ==
  /\ reply_sink.replies = <<GateReply>>
  /\ session.state = "WaitPass"
  /\ loop = "running"

\* C2: a non-exempt command polled while the session state is not WaitCmd
\* changes no field of the session, sends no internal message and starts no
\* task; the iteration only writes the 530 reply.
GateRejectionFrame ==
  [][\A cmd \in Commands :
       (NonExempt(cmd) /\ session.state # "WaitCmd" /\ CommandPolled(cmd)) =>
         /\ session' = session
         /\ control_msg_rx' = control_msg_rx
         /\ data_tasks' = data_tasks
         /\ proxyloop_rx' = proxyloop_rx
         /\ reply_sink'.replies = <<GateReply>>
    ]_vars

\* C2 witness: a session that logged in, stored a restart offset and went
\* back to WaitPass has had a command rejected, the offset still stored.
GateRejectedWithOffset ==
  /\ reply_sink.replies = <<GateReply>>
  /\ session.state = "WaitPass"
  /\ session.start_pos > 0

\* Internal messages the loop answers with a reply.
ReplyBearing(m) == m.tag \notin {"Quit", "SecureControlChannel", "PlaintextControlChannel"}
Owed(q) == Cardinality({i \in 1..Len(q) : ReplyBearing(q[i])})

\* The replies an iteration wrote plus those it left to later internal
\* messages (a queued message, a started data task, a port request).
Accounted ==
  Len(reply_sink'.replies) + (Owed(control_msg_rx') - Owed(control_msg_rx))
    + (data_tasks' - data_tasks) + (proxyloop_rx' - proxyloop_rx)

\* C3: every command polled accounts for exactly one reply, written by its
\* iteration or owed to one later internal message (PASS, PASV in PROXY mode);
\* RETR/STOR/LIST that start a transfer account for two (150 and the final
\* reply); a source error is answered by one reply; an internal message that
\* carries a reply is answered by exactly one.
OneReplyPerCommand ==
  [][/\ \A cmd \in Commands, ok \in BOOLEAN :
          CommandStep(cmd, ok) =>
            Accounted = IF cmd.verb \in {"Retr", "Stor", "List"} /\ data_tasks' > data_tasks
                          THEN 2 ELSE 1
     /\ \A e \in SourceErrors, ok \in BOOLEAN :
          SourceErrorStep(e, ok) => Len(reply_sink'.replies) = 1
     /\ \A msg \in InternalMsgs, ok \in BOOLEAN :
          (InternalMsgStep(msg, TRUE, ok) /\ ReplyBearing(msg)) =>
            Len(reply_sink'.replies) = 1
    ]_vars

\* C4: an error of the command source or of the dispatch chain is answered
\* with a reply, and after it the loop is running unless the kind is IOError
\* (or the reply could not be sent).
ErrorsAnsweredLoopRuns ==
  [][/\ \A e \in SourceErrors, ok \in BOOLEAN :
          SourceErrorStep(e, ok) =>
            /\ Len(reply_sink'.replies) = 1
            /\ ok => (loop' # "running" <=> e = "IOError")
     /\ \A cmd \in Commands, ok \in BOOLEAN :
          (CommandStep(cmd, ok)
             /\ handle_with_logging(CommandEvent(cmd), session, proxy_mode).res = "Err") =>
            /\ Len(reply_sink'.replies) = 1
            /\ ok => loop' = "running"
    ]_vars

\* The reply codes of the specification's error table.
ErrorTableCode(kind) ==
  CASE kind = "UnknownCommand" -> 500
    [] kind = "InvalidCommand" -> 501
    [] kind = "UTF8Error" -> 501
    [] kind = "AuthenticationError" -> 530
    [] kind = "InternalServerError" -> 451
    [] kind = "InternalMsgError" -> 451

\* C5: the reply to an error of the command source carries the code of the
\* error table, parse errors being converted UnknownCommand -> UnknownCommand,
\* InvalidUTF8 -> UTF8Error, InvalidCommand -> InvalidCommand first.
ErrorTableHolds ==
  [][/\ \A pk \in {"UnknownCommand", "InvalidUTF8", "InvalidCommand"}, ok \in BOOLEAN :
          SourceErrorStep(FromParseError(pk), ok) =>
            reply_sink'.replies[1].code = ErrorTableCode(FromParseError(pk))
     /\ FromParseError("UnknownCommand") = "UnknownCommand"
     /\ FromParseError("InvalidUTF8") = "UTF8Error"
     /\ FromParseError("InvalidCommand") = "InvalidCommand"
     /\ \A k \in {"AuthenticationError", "InternalServerError", "InternalMsgError"} :
          handle_control_channel_error(k).code = ErrorTableCode(k)
    ]_vars

\* C6: an IOError of the command source is answered with 421 and ends the
\* loop.
IoErrorCloses ==
  [][\A ok \in BOOLEAN :
       SourceErrorStep("IOError", ok) =>
         /\ reply_sink'.replies[1].code = 421
         /\ loop' # "running"
    ]_vars

\* C7: when the idle timer elapses the loop writes 421 "Session timed out.
\* Closing control connection" and ends; an ended loop writes nothing and
\* polls nothing.
IdleTimeoutCloses ==
  [][/\ \A ok \in BOOLEAN :
          TimeoutStep(ok) =>
            /\ reply_sink'.replies =
                 <<Reply(421, "Session timed out. Closing control connection")>>
            /\ loop' # "running"
     /\ loop # "running" =>
          /\ loop' = loop
          /\ reply_sink' = reply_sink
          /\ control_msg_rx' = control_msg_rx
    ]_vars

SocketCloseEndsLoop ==
  [][/\ \A msg \in InternalMsgs, hs \in BOOLEAN, ok \in BOOLEAN :
          (command_source = "ended" /\ InternalMsgStep(msg, hs, ok)) => loop' # "running"
     /\ \A ok \in BOOLEAN :
          (command_source = "ended" /\ TimeoutStep(ok)) => loop' # "running"
    ]_vars

\* C10: the AuthFailed message of a rejected PASS is answered 530 and leaves
\* the session in state Start.
FailedPassBackToStart ==
  [][\A hs \in BOOLEAN, ok \in BOOLEAN :
       InternalMsgStep(IMsg("AuthFailed"), hs, ok) =>
         /\ reply_sink'.replies[1].code = 530
         /\ session'.state = "Start"
    ]_vars

\* C11 as stated: in WaitPass every command other than PASS is answered
\* 530 and leaves the session state unchanged.
WaitPassRejectsAllButPass ==
  [][\A cmd \in Commands :
       (session.state = "WaitPass" /\ cmd.verb # "Pass" /\ CommandPolled(cmd)) =>
         /\ reply_sink'.replies[1].code = 530
         /\ session'.state = session.state
    ]_vars

\* C11, amended: in WaitPass every command outside the exempt set (HELP,
\* USER, PASS, AUTH, FEAT, QUIT) is answered 530 and leaves the session in
\* WaitPass with the user name it had.
WaitPassRejectsNonExempt ==
  [][\A cmd \in Commands :
       (session.state = "WaitPass" /\ NonExempt(cmd) /\ CommandPolled(cmd)) =>
         /\ Len(reply_sink'.replies) = 1
         /\ reply_sink'.replies[1].code = 530
         /\ session'.state = "WaitPass"
         /\ session'.username = session.username
    ]_vars

\* C11 witness: a command was rejected in WaitPass on a connection that had
\* been upgraded to TLS first.
RejectedInWaitPassOverTls ==
  /\ reply_sink.replies = <<GateReply>>
  /\ session.state = "WaitPass"
  /\ session.username \in Users
  /\ transport = "tls"

\* The reply codes of the specification's table of storage errors.
StorageErrorCode(kind) ==
  CASE kind = "TransientFileNotAvailable" -> 450
    [] kind = "PermanentFileNotAvailable" -> 550
    [] kind = "PermissionDenied" -> 550
    [] kind = "LocalError" -> 451
    [] kind = "PageTypeUnknown" -> 551
    [] kind = "InsufficientStorageSpaceError" -> 452
    [] kind = "ExceededStorageAllocationError" -> 552
    [] kind = "FileNameNotAllowedError" -> 553

\* C12: a StorageError message of any kind is answered by one reply with the
\* code of the table, every kind has a reply, the session is left as it was
\* and the loop runs on when the reply was sent.
StorageErrorTable ==
  [][/\ \A k \in StorageErrorKind :
          /\ StorageErrorReply(k).kind = "CodeAndMsg"
          /\ StorageError(k) \in PollableMsgs /\ MsgPolled(StorageError(k)) =>
               /\ Len(reply_sink'.replies) = 1
               /\ reply_sink'.replies[1].code = StorageErrorCode(k)
               /\ session' = session
               /\ reply_sink'.ok => loop' = "running"
    ]_vars

\* C12 witness: the loop has answered a storage error with 450 and runs on.
StorageErrorAnswered ==
  /\ reply_sink = Sent(Reply(450, "File not found"), TRUE)
  /\ loop = "running"

\* C13: each completion message of a data task is answered by one reply
\* whose code is 226, 426, 451 or 550: 226 for SendData, WrittenData and
\* DirectorySuccessfullyListed, 426 for ConnectionReset.
DataTaskFinalReply ==
  [][\A msg \in DataTaskMsgs :
       (msg \in PollableMsgs /\ MsgPolled(msg)) =>
         /\ Len(reply_sink'.replies) = 1
         /\ reply_sink'.replies[1].code \in {226, 426, 451, 550}
         /\ msg.tag \in {"SendData", "WrittenData", "DirectorySuccessfullyListed"} =>
              reply_sink'.replies[1].code = 226
         /\ msg.tag = "ConnectionReset" => reply_sink'.replies[1].code = 426
    ]_vars

\* C14: after the loop has processed the message of a completed transfer
\* (SendData, WrittenData, DirectorySuccessfullyListed) start_pos is 0.
StartPosResetAfterTransfer ==
  [][\A tag \in {"SendData", "WrittenData", "DirectorySuccessfullyListed"} :
       (IMsg(tag) \in PollableMsgs /\ MsgPolled(IMsg(tag))) => session'.start_pos = 0
    ]_vars

Abor == Cmd("Abor", "", 0)
AborReplies ==
  {Reply(226, "Closed data channel"), Reply(226, "Data channel already closed")}

\* C15 as stated: ABOR of a logged-in session leaves data_abort_tx absent
\* and replies 226 "Closed data channel" whether or not a transfer was
\* active.
AborAlwaysSameReply ==
  [][(session.state = "WaitCmd" /\ CommandPolled(Abor)) =>
       /\ ~session'.data_abort_tx
       /\ reply_sink'.replies = <<Reply(226, "Closed data channel")>>
    ]_vars

\* C15, amended: ABOR of a logged-in session takes the data-abort sender if
\* one is present (so one transfer is signalled at most once), changes no
\* other field, and replies 226: "Closed data channel" when it took a sender,
\* "Data channel already closed" when there was none; an ABOR that follows
\* an ABOR is answered 226 "Data channel already closed".
AborTakesSender ==
  [][(session.state = "WaitCmd" /\ CommandPolled(Abor)) =>
       /\ session' = [session EXCEPT !.data_abort_tx = FALSE]
       /\ reply_sink'.replies =
            <<Reply(226, IF session.data_abort_tx THEN "Closed data channel"
                                                  ELSE "Data channel already closed")>>
       /\ (reply_sink.replies # <<>> /\ reply_sink.replies[1] \in AborReplies) =>
            reply_sink'.replies = <<Reply(226, "Data channel already closed")>>
    ]_vars

\* C15 witness: an ABOR found no sender while a transfer it had aborted
\* before was still running.
SecondAborAnswered ==
  /\ reply_sink.replies = <<Reply(226, "Data channel already closed")>>
  /\ data_tasks > 0
  /\ ~session.data_abort_tx

\* C16: at most one data transfer is active, and while one is active the
\* session's data-abort sender is present.
OneTransferWithAbortSender ==
  /\ data_tasks <= 1
  /\ data_tasks > 0 => session.data_abort_tx

\* Replies the loop still owes to commands it has already polled: the 230 or
\* 530 of a PASS and the deferred 227 of a PASV in PROXY mode.
DeferredReplies ==
  Cardinality({i \in 1..Len(control_msg_rx) :
                 control_msg_rx[i].tag \in {"AuthSuccess", "AuthFailed", "CommandChannelReply"}})
    + proxyloop_rx

\* C17: replies leave in the order of the commands: the loop polls no
\* command while the reply to an earlier command is still to come through an
\* internal message; and only loop iterations write to the reply sink.
RepliesInCommandOrder ==
  [][/\ \A cmd \in Commands : CommandPolled(cmd) => DeferredReplies = 0
     /\ (data_tasks' < data_tasks \/ proxyloop_rx' < proxyloop_rx \/ proxyloop' # proxyloop
          \/ command_source' # command_source) => reply_sink' = reply_sink
    ]_vars

SecureControlChannelQueued ==
  /\ loop = "running"
  /\ control_msg_rx # <<>>
  /\ Head(control_msg_rx) = IMsg("SecureControlChannel")

\* C18: while the SecureControlChannel message of an AUTH TLS answered 234
\* waits in the channel the loop polls no command, no source error and no
\* timeout; and the iteration that polls the message leaves cmd_tls on and the
\* transport wrapped in TLS.
TlsUpgradeAtomic ==
  [][/\ SecureControlChannelQueued =>
          /\ \A cmd \in Commands : ~CommandPolled(cmd)
          /\ \A e \in SourceErrors : ~SourceErrorStep(e, reply_sink'.ok)
          /\ ~TimeoutStep(reply_sink'.ok)
     /\ (MsgPolled(IMsg("SecureControlChannel")) /\ loop' = "running") =>
          /\ session'.cmd_tls
          /\ transport' = "tls"
    ]_vars

\* C19: cmd_tls is on exactly when the control transport is wrapped in TLS.
CmdTlsMatchesTransport == session.cmd_tls <=> transport = "tls"

\* C20: neither the control-channel task nor the proxy loop panics.
NoPanic == loop # "panicked" /\ proxyloop # "panicked"

\* C29: in an authenticated session TYPE, whatever its argument, is answered
\* 200 'Always in binary mode' and ALLO 202, and neither changes a field of
\* the session.
TypeAlloAcceptedAndIgnored ==
  [][\A cmd \in {c \in Commands : c.verb \in {"Type", "Allo"}} :
       (session.state = "WaitCmd" /\ CommandPolled(cmd)) =>
         /\ session' = session
         /\ reply_sink'.replies =
              <<IF cmd.verb = "Type"
                  THEN Reply(CommandOkay, "Always in binary mode")
                  ELSE Reply(CommandOkayNotImplemented, "Ignored")>>
    ]_vars

\* A TYPE answered in an authenticated session that holds a restart offset.
TypeAnsweredWithOffset ==
  /\ session.state = "WaitCmd"
  /\ session.start_pos > 0
  /\ reply_sink = Sent(Reply(CommandOkay, "Always in binary mode"), TRUE)

\* A path with each of its double quotes doubled.
RECURSIVE QuotesDoubled(_)
QuotesDoubled(p) ==
  IF p = <<>> THEN <<>>
  ELSE (IF Head(p) = "\"" THEN <<"\"", "\"">> ELSE <<Head(p)>>) \o QuotesDoubled(Tail(p))

\* C28: PWD is answered 257 with the working directory between double
\* quotes, every double quote of the path doubled, and leaves the session
\* as it was.
PwdQuotesDoubled ==
  [][CommandPolled(Pwd) =>
       /\ reply_sink'.replies =
            <<Reply(DirCreated, <<"\"">> \o QuotesDoubled(session.cwd) \o <<"\"">>)>>
       /\ session' = session
    ]_vars

\* The reply of the loop's timeout branch.
TimeoutReply == handle_control_channel_error("ControlChannelTimeout")

\* C30: every iteration of the loop, whatever it handled, starts the idle
\* timer anew, so the timer always shows the time since the loop last handled
\* an event, and the timeout reply is written only when a whole
\* idle_session_timeout has passed without one.
IdleTimerRestarted ==
  /\ loop = "running" => timeout_delay = idle_for
  /\ reply_sink.replies = <<TimeoutReply>> => idle_for = IdleTicks

\* A logged-in session, busy before, timed out.
TimedOutAfterActivity ==
  /\ reply_sink = Sent(TimeoutReply, TRUE)
  /\ loop = "closed"
  /\ session.state = "WaitCmd"
  /\ session.start_pos > 0

\* C21: a connection whose PROXY header names the external control port
\* becomes a control channel (a session, once its greeting is written) and is
\* not offered to the data rendezvous, whatever is reserved on that port;
\* every other connection creates no session.
ControlPortDemultiplexed ==
  [][\A conn \in Connections, io_ok \in BOOLEAN :
       IF conn.to_port = external_control_port
         THEN ProxyIncomingStep(conn, io_ok) =>
                /\ switchboard' = switchboard
                /\ proxy_log'.route \in {"control", "control_failed"}
                /\ io_ok => sessions' = Append(sessions, ProxySession(conn))
         ELSE (sessions' # sessions \/ proxy_log'.route \in {"control", "control_failed"})
                => ~ProxyIncomingStep(conn, io_ok)
    ]_vars

\* A connection to the control port became a session while that port was
\* reserved for a data connection from the same address.
ControlChannelOnReservedPort ==
  /\ proxy_log.route = "control"
  /\ \E r \in switchboard :
       /\ r.port = external_control_port
       /\ r.from_ip = sessions[Len(sessions)].control_connection_info.from_ip
       /\ r.session # Len(sessions)

\* C22: a data connection under the key of a reservation goes to the data
\* pump of the session that reserved it and the reservation is dropped, so a
\* second connection under that key is not paired; one under no key is
\* closed.
DataConnectionPaired ==
  [][\A conn \in Connections, io_ok \in BOOLEAN :
       (/\ conn.to_port # external_control_port
        /\ conn.to_port \in passive_ports
        /\ ProxyIncomingStep(conn, io_ok)) =>
         LET found == get_session_by_incoming_data_connection(switchboard, conn) IN
         IF found # {}
           THEN /\ \E r \in found : proxy_log' = Logged("data_pump", NoConnection, r.session)
                /\ switchboard' = switchboard \ found
                /\ get_session_by_incoming_data_connection(switchboard', conn) = {}
           ELSE /\ proxy_log' = Logged("unexpected", conn, 0)
                /\ switchboard' = switchboard
    ]_vars

\* A data connection was paired with the second session and its reservation
\* is gone.
PairedAndDropped ==
  /\ proxy_log.route = "data_pump"
  /\ proxy_log.session = 2
  /\ \A r \in switchboard : r.session # 2

\* C23: a data connection to a reserved port from another address than the
\* reserving session's is closed; no session and no reservation changes, so
\* the reservation can still be paired.
MismatchedSourceClosed ==
  [][\A conn \in Connections, io_ok \in BOOLEAN :
       (/\ conn.to_port # external_control_port
        /\ \E r \in switchboard : r.port = conn.to_port /\ r.from_ip # conn.from_ip
        /\ get_session_by_incoming_data_connection(switchboard, conn) = {}
        /\ ProxyIncomingStep(conn, io_ok)) =>
         /\ proxy_log' = Logged("unexpected", conn, 0)
         /\ sessions' = sessions
         /\ switchboard' = switchboard
    ]_vars

\* A connection from another address was closed and the reservation on its
\* port is still there, its 227 already written.
MismatchClosedReservationKept ==
  /\ proxy_log.route = "unexpected"
  /\ proxyloop = "running"
  /\ \E r \in switchboard :
       /\ r.port = proxy_log.conn.to_port
       /\ r.from_ip # proxy_log.conn.from_ip
       /\ sessions[r.session].control_msg_rx = <<>>

\* C24: the deferred 227 of a PROXY-mode PASV advertises the configured
\* external_ip as its host.
AdvertisesExternalIp ==
  \A s \in 1..Len(sessions) :
    \A i \in 1..Len(sessions[s].control_msg_rx) :
      LET m == sessions[s].control_msg_rx[i] IN
      m.code = EnteringPassiveMode => SubSeq(m.text, 1, 4) = external_ip

\* C25: when no port of the range is free, the PASV is answered 425 on the
\* channel of the session that asked, the proxy loop goes on and the other
\* sessions and the reservations stay as they are.
PortExhaustionAnswered425 ==
  [][(/\ proxyloop_msg_rx # <<>>
      /\ reserve_next_free_port(switchboard) = {PortAllocationError}
      /\ ProxyAssignStep(PortAllocationError)) =>
        LET s == Head(proxyloop_msg_rx) IN
        /\ proxyloop' = "running"
        /\ switchboard' = switchboard
        /\ \A o \in 1..Len(sessions) : o # s => sessions'[o] = sessions[o]
        /\ sessions'[s].control_msg_rx # <<>>
        /\ sessions'[s].control_msg_rx[Len(sessions'[s].control_msg_rx)].code
             = CantOpenDataConnection
    ]_vars

Reply227BeforeDataPump ==
  [][\A conn \in Connections, io_ok \in BOOLEAN :
       (/\ proxy_log'.route = "data_pump"
        /\ conn.to_port # external_control_port
        /\ ProxyIncomingStep(conn, io_ok)) =>
         \A i \in 1..Len(sessions[proxy_log'.session].control_msg_rx) :
           sessions[proxy_log'.session].control_msg_rx[i]
             # PassiveModeReply(conn.from_ip, conn.to_port)
    ]_vars

RECURSIVE CountMsg(_, _)
CountMsg(q, msg) ==
  IF q = <<>> THEN 0
  ELSE (IF Head(q) = msg THEN 1 ELSE 0) + CountMsg(Tail(q), msg)

\* C32: the session state becomes WaitCmd only in the iteration that polls
\* an AuthSuccess message, whatever the state was, and an AuthSuccess is
\* put on the internal channel only by a PASS polled in WaitPass whose
\* password the authenticator accepted for the session's user; so every
\* state with session.state = WaitCmd follows an accepted USER/PASS pair.
WaitCmdOnlyAfterAccept ==
  [][/\ (session.state # "WaitCmd" /\ session'.state = "WaitCmd") =>
          MsgPolled(IMsg("AuthSuccess"))
     /\ CountMsg(control_msg_rx', IMsg("AuthSuccess"))
          > CountMsg(control_msg_rx, IMsg("AuthSuccess")) =>
          \E cmd \in Commands :
            /\ cmd.verb = "Pass"
            /\ session.state = "WaitPass"
            /\ authenticate(session.username, cmd.arg)
            /\ CommandPolled(cmd)
    ]_vars

\* C32 witness: the loop has answered 230 to an AuthSuccess and the session
\* is logged in.
LoggedInByAuthSuccess ==
  /\ session.state = "WaitCmd"
  /\ reply_sink.replies = <<Reply(UserLoggedIn, "User logged in, proceed")>>
  /\ loop = "running"

\* C34: once the server listens, the range the switchboard reserves ports
\* from is the range the PROXY listener accepts data connections for,
\* whatever the order of the builder calls was, and no reserved port lies
\* outside the listener's range.
ReservedRangeIsListenerRange ==
  proxyloop = "running" =>
    /\ switchboard_port_range = server_passive_ports
    /\ \A r \in switchboard : r.port \in server_passive_ports

\* The 227 the proxy loop has just put on the channel of session s.
Latest227(s) ==
  LET q == sessions'[s].control_msg_rx IN q[Len(q)]

\* C31: whenever the proxy loop reserves a port p and sends the 227, the
\* fields p1 and p2 of the reply satisfy 256*p1 + p2 = p with both between
\* 0 and 255, and p lies in the passive port range the server is configured
\* with.
PortFieldsEncodeConfiguredPort ==
  [][\A port \in switchboard_port_range :
       ProxyAssignStep(port) =>
         LET text == Latest227(Head(proxyloop_msg_rx)).text
             p1 == text[5]
             p2 == text[6]
         IN /\ (256 * p1) + p2 = port
            /\ p1 \in 0..255
            /\ p2 \in 0..255
            /\ port \in server_passive_ports
    ]_vars

DeliveryCompletesWhileLoopWaits ==
  (/\ session_lock = "proxyloop"
   /\ pending # NoEvent
   /\ loop = "running"
   /\ control_connection_info = "V4"
   /\ Len(control_msg_rx) >= ControlMsgBuffer)
    => ENABLED AssignSends

\* C35: whatever the accepted connections send or fail to send, an
\* AssignDataPortCommand waiting in the proxy loop is eventually taken by
\* the loop (served, or the loop has ended in a panic).
PendingAssignEventuallyTaken ==
  (proxyloop_msg_rx # <<>>) ~> (proxyloop_msg_rx = <<>> \/ proxyloop = "panicked")

====
